---------------------------- MODULE Spec2Model ----------------------------
(***************************************************************************)
(* State-machine model of deeppavlov/pipeline_manager/pipeline_manager.py  *)
(* (class PipelineManager): the validation pass test() run from __init__,  *)
(* the search loop of run(), best tracking per dataset, the retention of   *)
(* the best checkpoint and the report call.                                *)
(*                                                                         *)
(* The collaborators (PipeGen, train_evaluate_model_from_config,           *)
(* calc_cv_score, Logger, results_visualization) are not part of the file; *)
(* what they return and what they write to disk is drawn                   *)
(* nondeterministically from small sets.                                   *)
(***************************************************************************)
EXTENDS Integers, Sequences, FiniteSets, TLC

\* ------------------------------------------------------------------ bounds
\* largest number of candidates a generator yields (PipeGen.length)
MaxN == 2

\* metric values: the sentinel of a fresh tracker entry and two above it
Scores == {-1, 0, 1}
TopScore == CHOOSE x \in Scores : \A y \in Scores : y <= x
Datasets == {"d1", "d2"}
MetricNames == {"accuracy", "f1"}
Modes == {"train", "evaluate", "score"}
ReaderNames == {"basic_classification_reader", "other_reader"}
\* fold counts tried for k_fold (5 is the default of __init__)
KFolds == {3, 5}

\* ------------------------------------------------------- values of the code
\* target_metric=None of __init__
NoTarget == "<None>"
\* best_ind=None of a fresh tracker entry; candidate indices are i + 1 >= 1
NoInd == 0
\* best_score of a fresh tracker entry
InitialBestScore == -1
InitialBest == [best_score |-> InitialBestScore, best_ind |-> NoInd]

\* an absent directory
NoDir == [exists |-> FALSE, entries |-> {}]
EmptyDir == [exists |-> TRUE, entries |-> {}]
\* names of directory entries: 'pipe_<k>' and a dataset-level artifact
PipeName(k) == [prefix |-> "pipe", ind |-> k]
SharedName == [prefix |-> "vocab", ind |-> 0]
\* f.startswith('pipe')
StartsWithPipe(f) == f.prefix = "pipe"
\* a directory entry: its name, whether it is a file or a directory, whether
\* it was there before the run ("old") or written by it ("run"), and whether
\* it holds the config.json of save_config
Entry(f, kind, origin, config) ==
    [name |-> f, kind |-> kind, origin |-> origin, config |-> config]
Named(dir, f) == {e \in dir.entries : e.name = f}
\* os.path.isfile / os.path.isdir / os.path.exists of join(dir, f)
IsFile(dir, f) == dir.exists /\ \E e \in Named(dir, f) : e.kind = "file"
IsDir(dir, f) == dir.exists /\ \E e \in Named(dir, f) : e.kind = "dir"
Exists(dir, f) == dir.exists /\ Named(dir, f) # {}

\* one split of a result dict, seen through results[split][target_metric]
Absent == [tag |-> "absent", v |-> 0]
NoMetric == [tag |-> "nometric", v |-> 0]
Val(s) == [tag |-> "value", v |-> s]
SplitShapes == {Absent, NoMetric} \cup {Val(s) : s \in Scores}
NoResults == [test |-> Absent, valid |-> Absent]
\* the result dicts the executor returns: every shape of the split that is
\* read, and beside a present test split a valid split that is absent or
\* holds the largest value
ResultShapes ==
    {r \in [test : SplitShapes, valid : SplitShapes] :
        r.test = Absent \/ r.valid \in {Absent, Val(TopScore)}}
\* the aggregate scores calc_cv_score returns: with the target metric or not
CvScores == SplitShapes \ {Absent}

VARIABLES
    mode, cross_validation, k_fold, save_best, target_metric,
    gen_len, pc, error,
    t_ind, test_readers, test_calls, tmp_exists,
    i, pipe, results, dataset_res, ds_order, observed,
    run_calls, log_records, log_saved, report_calls,
    src, dst, ds_todo, rerun, retained

vars == <<mode, cross_validation, k_fold, save_best, target_metric,
          gen_len, pc, error,
          t_ind, test_readers, test_calls, tmp_exists,
          i, pipe, results, dataset_res, ds_order, observed,
          run_calls, log_records, log_saved, report_calls,
          src, dst, ds_todo, rerun, retained>>

cfgVars == <<mode, cross_validation, k_fold, save_best, gen_len>>
testVars == <<t_ind, test_readers, test_calls, tmp_exists>>
loopVars == <<i, pipe, results, dataset_res, ds_order, observed>>
outVars == <<run_calls, log_records, log_saved, report_calls>>
fsVars == <<src, dst>>

\* ------------------------------------------------------------ construction
\* what a checkpoints/<dataset>_best_pipe/ directory left by an earlier
\* experiment of the same name and date may hold
PreDest ==
    { NoDir, EmptyDir,
      [exists |-> TRUE, entries |-> {Entry(PipeName(1), "dir", "old", TRUE)}],
      [exists |-> TRUE, entries |-> {Entry(SharedName, "file", "old", FALSE)}],
      [exists |-> TRUE, entries |-> {Entry(SharedName, "dir", "old", FALSE)}] }

\* __init__ up to the call of test(): the arguments are stored, nothing has run
Init ==
    /\ mode \in Modes
    /\ cross_validation \in BOOLEAN
    /\ k_fold \in (IF cross_validation THEN KFolds ELSE {5})
    /\ save_best \in BOOLEAN
    /\ target_metric \in {NoTarget, "f1"}
    /\ gen_len \in 1..MaxN
    /\ pc = "test"
    /\ error = "none"
    /\ t_ind = 0
    /\ test_readers = <<>>
    /\ test_calls = <<>>
    /\ tmp_exists = FALSE
    /\ i = 0
    /\ pipe = [dataset |-> "d1", metrics |-> "accuracy"]
    /\ results = NoResults
    /\ dataset_res = [d \in {} |-> InitialBest]
    /\ ds_order = <<>>
    /\ observed = <<>>
    /\ run_calls = <<>>
    /\ log_records = <<>>
    /\ log_saved = FALSE
    /\ report_calls = <<>>
    /\ src = [d \in Datasets |-> NoDir]
    /\ \E pre \in (IF save_best THEN PreDest ELSE {NoDir}) :
          dst = [d \in Datasets |-> pre]
    /\ ds_todo = <<>>
    /\ rerun = FALSE
    /\ retained = <<src, dst>>

\* ------------------------------------------------------------------ test()
\* mutant of ReaderOk: the reader name is not checked
ReaderOkAny(name) == TRUE
\* pipe['dataset_reader']['name'] == 'basic_classification_reader'
ReaderOk(name) == name = "basic_classification_reader"
\* mutant of ModeSupported: the final else of test() runs the executor too
ModeSupportedAny(m) == TRUE
\* test(): self.mode == 'train', elif self.mode == 'evaluate', else raise
ModeSupported(m) == m \in {"train", "evaluate"}
\* mutant of HasNext: the loop stops one candidate early
HasNextButLast(k, n) == k + 1 < n
\* the loop of test() and of run() has another candidate to take
HasNext(k, n) == k < n

\* mutant of TestRaised: __init__ goes on after a failed validation pass
TestRaisedSwallowed == "ready"
\* an exception leaves test() and __init__: nothing catches it
TestRaised == "test_failed"
\* mutant of TmpRemoved: the rmtree at the end of test() is left out
TmpKept == TRUE
\* whether tmp exists after rmtree(join(self.save_path, "tmp"))
TmpRemoved == FALSE

\* one iteration of the loop of test(): the reader check, the mode check and
\* the call of train_evaluate_model_from_config
TestPipe ==
    /\ pc = "test"
    /\ HasNext(t_ind, gen_len)
    /\ \E reader \in ReaderNames, ok \in BOOLEAN, wrote \in BOOLEAN :
         /\ test_readers' = Append(test_readers, reader)
         /\ IF ~ReaderOk(reader)
            THEN /\ pc' = TestRaised
                 /\ error' = "ConfigError"
                 /\ UNCHANGED <<t_ind, test_calls, tmp_exists>>
            ELSE IF ~ModeSupported(mode)
            THEN /\ pc' = TestRaised
                 /\ error' = "ValueError"
                 /\ UNCHANGED <<t_ind, test_calls, tmp_exists>>
            ELSE /\ test_calls' = Append(test_calls, t_ind + 1)
                 /\ tmp_exists' = (tmp_exists \/ wrote)
                 /\ IF ok
                    THEN /\ t_ind' = t_ind + 1
                         /\ UNCHANGED <<pc, error>>
                    ELSE /\ pc' = TestRaised
                         /\ error' = "ExecutorError"
                         /\ UNCHANGED t_ind
    /\ UNCHANGED <<cfgVars, target_metric, loopVars, outVars, fsVars,
                   ds_todo, rerun, retained>>

\* the end of test(): rmtree(join(self.save_path, "tmp")); __init__ returns
TestFinish ==
    /\ pc = "test"
    /\ ~HasNext(t_ind, gen_len)
    /\ IF tmp_exists
       THEN /\ tmp_exists' = TmpRemoved
            /\ pc' = "ready"
            /\ UNCHANGED error
       ELSE /\ pc' = TestRaised
            /\ error' = "FileNotFoundError"
            /\ UNCHANGED tmp_exists
    /\ UNCHANGED <<cfgVars, target_metric, t_ind, test_readers, test_calls,
                   loopVars, outVars, fsVars, ds_todo, rerun, retained>>

\* ------------------------------------------------------------------- run()
\* the head of run(): a fresh generator, an empty dataset_res
RunStart ==
    /\ pc = "ready"
    /\ pc' = "next"
    /\ i' = 0
    /\ dataset_res' = [d \in {} |-> InitialBest]
    /\ ds_order' = <<>>
    /\ UNCHANGED <<cfgVars, target_metric, error, testVars, pipe, results,
                   observed, outVars, fsVars, ds_todo, rerun, retained>>

\* if i == 0
ResolvesTarget(k) == k = 0
\* mutant of ResolveTarget: the first metric replaces a configured target
ResolveTargetFirst(configured, first_metric) == first_metric
\* if self.target_metric is None: self.target_metric = pipe['train']['metrics'][0]
ResolveTarget(configured, first_metric) ==
    IF configured = NoTarget THEN first_metric ELSE configured

\* the generator yields candidate i + 1; the target metric is resolved on the
\* first one; the logger gets the index and the dataset
NextPipe ==
    /\ pc = "next"
    /\ HasNext(i, gen_len)
    /\ \E d \in Datasets, m \in MetricNames :
         /\ pipe' = [dataset |-> d, metrics |-> m]
         /\ target_metric' = IF ResolvesTarget(i)
                             THEN ResolveTarget(target_metric, m)
                             ELSE target_metric
    /\ pc' = "exec"
    /\ UNCHANGED <<cfgVars, error, testVars, i, results, dataset_res, ds_order,
                   observed, outVars, fsVars, ds_todo, rerun, retained>>

\* if self.cross_validation
UsesScorer(cv) == cv
\* run(): self.mode == 'train', elif self.mode == 'evaluate', else raise
RunModeSupported(m) == m \in {"train", "evaluate"}
\* mutant of FoldsArg: the default fold count instead of self.k_fold
FoldsArgDefault(k) == 5
\* n_folds=self.k_fold
FoldsArg(k) == k
\* to_train, to_validate of the two supported modes
ExecutorArgs(m) ==
    IF m = "train" THEN [to_train |-> TRUE, to_validate |-> TRUE]
    ELSE [to_train |-> FALSE, to_validate |-> FALSE]
\* results = {"test": cv_score}
WrapScore(cv_score) == [test |-> cv_score, valid |-> Absent]
\* what the executor or the scorer leaves under checkpoints/<dataset>/
Effects == {"nothing", "pipe", "pipe+vocab"}
Written(dir, k, effect) ==
    IF effect = "nothing" THEN dir
    ELSE [exists |-> TRUE,
          entries |->
            {e \in dir.entries : e.name # PipeName(k)}
            \cup {Entry(PipeName(k), "dir", "run", FALSE)}
            \cup (IF effect = "pipe+vocab" /\ ~Exists(dir, SharedName)
                  THEN {Entry(SharedName, "file", "run", FALSE)} ELSE {})]
\* mutant of Raised: the exception is swallowed and the loop goes on
RaisedSwallowed == "next"
\* an exception leaves the loop and run(): nothing catches it
Raised == "run_failed"

\* the call itself: the record of the call, what it wrote under the
\* dataset's checkpoint directory, and its result or its failure
Called(call, effect, ok, res) ==
    /\ run_calls' = Append(run_calls, call)
    /\ src' = [src EXCEPT ![pipe.dataset] = Written(@, i + 1, effect)]
    /\ IF ok
       THEN /\ results' = res
            /\ pc' = "track"
            /\ UNCHANGED error
       ELSE /\ pc' = Raised
            /\ error' = "ExecutorError"
            /\ UNCHANGED results

\* the execution step of one candidate: calc_cv_score, or
\* train_evaluate_model_from_config in the mode's way, or the ValueError
Execute ==
    /\ pc = "exec"
    /\ IF UsesScorer(cross_validation)
       THEN \E effect \in Effects :
              LET call == [ind |-> i + 1, via |-> "scorer",
                           n_folds |-> FoldsArg(k_fold),
                           to_train |-> FALSE, to_validate |-> FALSE]
              IN \/ \E cv_score \in CvScores :
                      Called(call, effect, TRUE, WrapScore(cv_score))
                 \/ Called(call, effect, FALSE, NoResults)
       ELSE IF RunModeSupported(mode)
       THEN \E effect \in Effects :
              LET call == [ind |-> i + 1, via |-> "executor", n_folds |-> 0,
                           to_train |-> ExecutorArgs(mode).to_train,
                           to_validate |-> ExecutorArgs(mode).to_validate]
              IN \/ \E res \in ResultShapes : Called(call, effect, TRUE, res)
                 \/ Called(call, effect, FALSE, NoResults)
       ELSE /\ pc' = Raised
            /\ error' = "ValueError"
            /\ UNCHANGED <<run_calls, src, results>>
    /\ UNCHANGED <<cfgVars, target_metric, testVars, i, pipe, dataset_res,
                   ds_order, observed, log_records, log_saved, report_calls,
                   dst, ds_todo, rerun, retained>>

\* if self.save_best
\* mutant of TracksBest: best tracking and retention are never done
TracksBestNever(sb) == FALSE
\* mutant of TracksBest: best tracking and retention whatever save_best is
TracksBestAlways(sb) == TRUE
TracksBest(sb) == sb
\* mutant of TargetValue: a missing split or metric reads as the sentinel
\* (results.get(...).get(target_metric, -1))
TargetValueOrSentinel(res) ==
    IF res.test.tag = "value" THEN res.test
    ELSE IF res.valid.tag = "value" THEN res.valid
    ELSE Val(InitialBestScore)
\* the split the comparison reads: results['test'] if 'test' in results.keys(),
\* else results['valid']; "absent" and "nometric" are the two KeyErrors
TargetValue(res) == IF res.test.tag # "absent" THEN res.test ELSE res.valid
\* mutant of Improves: the comparison is left out, the last candidate wins
ImprovesAlways(new, best) == TRUE
\* mutant of Improves: >= instead of >
ImprovesOrEqual(new, best) == new >= best
\* results[...][self.target_metric] > dataset_res[...]["best_score"]
Improves(new, best) == new > best
\* the tracker entry after the comparison with the candidate's value
Tracked(entry, value, k) ==
    IF Improves(value, entry.best_score)
    THEN [best_score |-> value, best_ind |-> k]
    ELSE entry
\* dataset_res with the dataset's entry created when it is not a key yet
WithKey(res, d) ==
    IF d \in DOMAIN res THEN res ELSE [x \in DOMAIN res \cup {d} |->
                                         IF x = d THEN InitialBest ELSE res[x]]

\* mutant of SavesConfig: save_config is never called
SavesConfigNever(cv) == FALSE
\* if not self.cross_validation: self.save_config(...)
SavesConfig(cv) == ~cv
\* save_config: open(join(save_path, dataset_name, 'pipe_<i+1>', 'config.json'), 'w')
\* needs the directory to be there
CanSaveConfig(dir, k) == IsDir(dir, PipeName(k))
ConfigSaved(dir, k) ==
    [dir EXCEPT !.entries =
        {IF e.name = PipeName(k) THEN [e EXCEPT !.config = TRUE] ELSE e : e \in @}]

\* the rest of one iteration, after the execution step: best tracking when
\* save_best (a KeyError leaves the loop with the dataset's key created),
\* then save_config when there is no cross validation (a missing directory
\* leaves the loop with the tracker updated), then logger.get_pipe_log() and
\* logger.write()
Record ==
    /\ pc = "track"
    /\ LET d == pipe.dataset
           res == WithKey(dataset_res, d)
           look == TargetValue(results)
           tracks == TracksBest(save_best)
           keyerror == tracks /\ look.tag # "value"
           nodir == SavesConfig(cross_validation) /\ ~CanSaveConfig(src[d], i + 1)
       IN /\ ds_order' = IF tracks /\ d \notin DOMAIN dataset_res
                         THEN Append(ds_order, d) ELSE ds_order
          /\ dataset_res' = IF ~tracks THEN dataset_res
                            ELSE IF keyerror THEN res
                            ELSE [res EXCEPT ![d] = Tracked(@, look.v, i + 1)]
          /\ observed' = IF tracks /\ ~keyerror
                         THEN Append(observed,
                                 [dataset |-> d, score |-> look.v, ind |-> i + 1,
                                  metric |-> target_metric])
                         ELSE observed
          /\ IF keyerror
             THEN /\ pc' = Raised
                  /\ error' = "KeyError"
                  /\ UNCHANGED <<src, log_records, i, results>>
             ELSE IF nodir
             THEN /\ pc' = Raised
                  /\ error' = "FileNotFoundError"
                  /\ UNCHANGED <<src, log_records, i, results>>
             ELSE /\ src' = IF SavesConfig(cross_validation)
                            THEN [src EXCEPT ![d] = ConfigSaved(@, i + 1)]
                            ELSE src
                  /\ log_records' = Append(log_records,
                                            [ind |-> i + 1, dataset |-> d])
                  /\ i' = i + 1
                  /\ results' = NoResults
                  /\ pc' = "next"
                  /\ UNCHANGED error
    /\ UNCHANGED <<cfgVars, target_metric, testVars, pipe, run_calls, log_saved,
                   report_calls, dst, ds_todo, rerun, retained>>

\* after the loop: full_time, logger.save(); then retention when save_best
SaveLog ==
    /\ pc = "next"
    /\ ~HasNext(i, gen_len)
    /\ log_saved' = TRUE
    /\ IF TracksBest(save_best) /\ ds_order # <<>>
       THEN pc' = "retain" /\ ds_todo' = ds_order
       ELSE pc' = "report" /\ UNCHANGED ds_todo
    /\ UNCHANGED <<cfgVars, target_metric, error, testVars, loopVars, run_calls,
                   log_records, report_calls, fsVars, rerun, retained>>

\* --------------------------------------------------------------- retention
\* if not os.path.isdir(dest1): os.makedirs(dest1)
MadeDest(dest) == IF dest.exists THEN dest ELSE EmptyDir
\* what the body of "for f in files" does with one entry of the source:
\*   "move"    shutil.move(join(source, f), dest1) into a free name
\*   "replace" rmtree(join(dest1, f)) and then the move
\*   "error"   shutil.move raises: dest1/f exists already
\*   "skip"    neither branch
RetainAct(dest, f, best_ind) ==
    IF ~StartsWithPipe(f) /\ ~IsFile(dest, f)
    THEN IF Exists(dest, f) THEN "error" ELSE "move"
    ELSE IF f = PipeName(best_ind)
    THEN IF IsDir(dest, f) THEN "replace"
         ELSE IF Exists(dest, f) THEN "error" ELSE "move"
    ELSE "skip"
\* the destination with the entries of moved in it
Moved(dest, moved) ==
    [exists |-> TRUE,
     entries |-> {e \in dest.entries : \A m \in moved : m.name # e.name} \cup moved]
\* rmtree(join(self.save_path, name))
Removed(dir) == NoDir

\* retention of one dataset, the next key of dataset_res: the whole body of
\* "for name in dataset_res.keys()". os.listdir gives the entries in any
\* order, so a failing move may come after any of the other moves.
Retain ==
    /\ pc = "retain"
    /\ ds_todo # <<>>
    /\ LET name == Head(ds_todo)
           best == dataset_res[name].best_ind
           dest == MadeDest(dst[name])
           source == src[name]
           movable == {e \in source.entries :
                          RetainAct(dest, e.name, best) \in {"move", "replace"}}
           failing == {e \in source.entries :
                          RetainAct(dest, e.name, best) = "error"}
       IN IF ~source.exists
          THEN /\ dst' = [dst EXCEPT ![name] = dest]
               /\ pc' = Raised
               /\ error' = "FileNotFoundError"
               /\ UNCHANGED <<src, ds_todo>>
          ELSE IF failing # {}
          THEN /\ \E done \in SUBSET movable :
                    /\ dst' = [dst EXCEPT ![name] = Moved(dest, done)]
                    /\ src' = [src EXCEPT ![name].entries = @ \ done]
               /\ pc' = Raised
               /\ error' = "shutil.Error"
               /\ UNCHANGED ds_todo
          ELSE /\ dst' = [dst EXCEPT ![name] = Moved(dest, movable)]
               /\ src' = [src EXCEPT ![name] = Removed(@)]
               /\ ds_todo' = Tail(ds_todo)
               /\ pc' = IF Tail(ds_todo) = <<>> THEN "report" ELSE "retain"
               /\ UNCHANGED error
    /\ UNCHANGED <<cfgVars, target_metric, testVars, loopVars, outVars, rerun,
                   retained>>

\* results_visualization(path, join(path, 'images'), self.plot, self.target_metric)
Report ==
    /\ pc = "report"
    /\ report_calls' = Append(report_calls, target_metric)
    /\ pc' = "done"
    /\ UNCHANGED <<cfgVars, target_metric, error, testVars, loopVars, run_calls,
                   log_records, log_saved, fsVars, ds_todo, rerun, retained>>

Next ==
    \/ TestPipe
    \/ TestFinish
    \/ RunStart
    \/ NextPipe
    \/ Execute
    \/ Record
    \/ SaveLog
    \/ Retain
    \/ Report

Spec == Init /\ [][Next]_vars

\* the retention block of run() entered once more after a run that retained:
\* "for name in dataset_res.keys()" over the same dataset_res, on the tree
\* the first pass left
RerunRetention ==
    /\ pc = "done"
    /\ TracksBest(save_best)
    /\ ~rerun
    /\ rerun' = TRUE
    /\ retained' = <<src, dst>>
    /\ ds_todo' = ds_order
    /\ pc' = "retain"
    /\ UNCHANGED <<cfgVars, target_metric, error, testVars, loopVars, outVars,
                   fsVars>>

NextRerun ==
    \/ Next
    \/ RerunRetention

SpecRerun == Init /\ [][NextRerun]_vars

\* ------------------------------------------------------------------ claims
SeqTo(n) == [k \in 1..n |-> k]
Inds(calls) == [k \in 1..Len(calls) |-> calls[k].ind]
Range(seq) == {seq[k] : k \in 1..Len(seq)}
\* the candidates of dataset d whose target-metric value was compared
ObservedOf(d) == {o \in Range(observed) : o.dataset = d}
MaxOf(S) == CHOOSE x \in S : \A y \in S : y <= x
\* the tree as it was before the run
InitialDst == retained[2]
\* the pipe_* entries a directory holds that this run wrote
RunPipes(dir) == {e \in dir.entries : StartsWithPipe(e.name) /\ e.origin = "run"}

\* C1: after a full run with best-only retention, for every dataset with a
\* scored candidate, best_score is the maximum of the target-metric values
\* of its candidates and best_ind is the index of a candidate of the dataset
\* that reached it, whatever values the executor returned.
C1_BestIsMaximum ==
    (pc = "done" /\ save_best) =>
        \A d \in DOMAIN dataset_res :
            ObservedOf(d) # {} =>
                /\ dataset_res[d].best_score = MaxOf({o.score : o \in ObservedOf(d)})
                /\ \E o \in ObservedOf(d) :
                      /\ o.ind = dataset_res[d].best_ind
                      /\ o.score = dataset_res[d].best_score

\* C2: after a run with best-only retention, for every dataset seen, the
\* dataset's checkpoint directory is gone (no pipe_* left in it), the
\* directory <dataset>_best_pipe holds pipe_<best_ind> of this run, and no
\* other pipe_* tree written during the run is left anywhere.
C2_OnlyBestRetained ==
    (pc = "done" /\ save_best) =>
        \A d \in DOMAIN dataset_res :
            /\ ~src[d].exists
            /\ dst[d].exists
            /\ \E e \in RunPipes(dst[d]) : e.name = PipeName(dataset_res[d].best_ind)
            /\ \A e \in RunPipes(dst[d]) : e.name = PipeName(dataset_res[d].best_ind)

\* C3: retention entered again on a tree that is already retained raises no
\* error and leaves the tree, <dataset>_best_pipe included, as it was.
C3_RerunIsNoOp ==
    rerun => (pc # "run_failed" /\ <<src, dst>> = retained)

\* some candidate of the validation pass has another dataset reader
HasBadReader ==
    \E k \in DOMAIN test_readers : test_readers[k] # "basic_classification_reader"

\* C4 as stated: a candidate with another dataset reader, at any position
\* of the validation pass, aborts the run with a configuration error and
\* the executor has been invoked zero times.
C4_ZeroExecutions ==
    HasBadReader =>
        /\ pc = "test_failed" /\ error = "ConfigError"
        /\ test_calls = <<>> /\ run_calls = <<>>

\* C4 as amended: a candidate with another dataset reader aborts the run
\* with a configuration error at that candidate; it is the last candidate
\* taken, the executor has been invoked exactly for the candidates before
\* it (zero times only when it is the first) and never in a full run.
C4_AbortAtFirstOffender ==
    HasBadReader =>
        /\ pc = "test_failed" /\ error = "ConfigError"
        /\ \A k \in 1..(Len(test_readers) - 1) :
              test_readers[k] = "basic_classification_reader"
        /\ test_calls = SeqTo(Len(test_readers) - 1)
        /\ run_calls = <<>>

C4_Witness ==
    /\ pc = "test_failed" /\ error = "ConfigError"
    /\ test_readers = <<"basic_classification_reader", "other_reader">>
    /\ test_calls = <<1>>

\* C5: the executor is invoked once per candidate, in generator order, in
\* the validation pass and (executor or scorer) in the full run: N times
\* when the pass or the run completes; a candidate is executed only after
\* every earlier one ran to completion and was logged.
C5_EachOnceInOrder ==
    /\ test_calls = SeqTo(Len(test_calls))
    /\ Len(test_calls) \in {t_ind, t_ind + 1}
    /\ (pc \notin {"test", "test_failed"}) => test_calls = SeqTo(gen_len)
    /\ Inds(run_calls) = SeqTo(Len(run_calls))
    /\ Len(run_calls) \in {i, i + 1}
    /\ (pc \in {"next", "exec"}) => Len(run_calls) = i
    /\ Inds(log_records) = SeqTo(i)
    /\ (pc = "done") => Inds(run_calls) = SeqTo(gen_len)

C5_Witness ==
    /\ pc = "done" /\ gen_len = MaxN
    /\ Len(test_calls) = MaxN /\ Len(run_calls) = MaxN

\* C6: with cross validation, every call of the full run is one call of the
\* scorer with n_folds = k_fold, one per candidate; the result has the
\* single key "test"; no config.json is written for any candidate.
C6_CrossValidation ==
    cross_validation =>
        /\ \A c \in Range(run_calls) : c.via = "scorer" /\ c.n_folds = k_fold
        /\ Inds(run_calls) = SeqTo(Len(run_calls))
        /\ (pc = "done") => Len(run_calls) = gen_len
        /\ (pc = "track") => (results.test.tag # "absent" /\ results.valid = Absent)
        /\ \A d \in Datasets :
              \A e \in src[d].entries \cup dst[d].entries :
                  e.origin = "run" => ~e.config

C6_Witness ==
    /\ cross_validation /\ pc = "done" /\ k_fold = 3 /\ gen_len = 2
    /\ Len(run_calls) = 2
    /\ \E d \in Datasets : RunPipes(src[d]) \cup RunPipes(dst[d]) # {}

\* C7: with a mode other than train and evaluate, neither the executor nor
\* the scorer is ever invoked, with or without cross validation: nothing
\* gets past the first candidate of the validation pass, which ends in a
\* fatal error, and no full run starts.
C7_UnsupportedModeAborts ==
    (mode \notin {"train", "evaluate"}) =>
        /\ test_calls = <<>> /\ run_calls = <<>>
        /\ t_ind = 0
        /\ pc \in {"test", "test_failed"}
        /\ (pc = "test_failed") => error \in {"ValueError", "ConfigError"}
        /\ (pc = "test") => test_readers = <<>>

C7_Witness ==
    /\ mode = "score" /\ cross_validation
    /\ pc = "test_failed" /\ error = "ValueError"

\* C8: when the executor or the scorer fails on a candidate of the full
\* run, the run ends there: the failing candidate is the last one called
\* and was called once, no later one is called, the final log is not
\* saved, no retention and no report happen, and the log records and the
\* checkpoint configs of the candidates before it are in place.
C8_FailureAbortsBatch ==
    (error = "ExecutorError" /\ pc # "test_failed") =>
        /\ pc = "run_failed"
        /\ Inds(run_calls) = SeqTo(i + 1)
        /\ Inds(log_records) = SeqTo(i)
        /\ ~log_saved
        /\ report_calls = <<>>
        /\ dst = InitialDst
        /\ \A k \in 1..i :
              ~cross_validation =>
                  \E e \in src[log_records[k].dataset].entries :
                      e.name = PipeName(k) /\ e.config

C8_Witness ==
    /\ error = "ExecutorError" /\ pc = "run_failed"
    /\ ~cross_validation /\ i = 1 /\ Len(run_calls) = 2

\* the result has the target metric neither in test nor in valid
Lacks(res) == res.test.tag # "value" /\ res.valid.tag # "value"

\* C9: with best-only retention, a result that has the target metric
\* neither in its test split nor in its valid split makes the run fail with
\* an error at that candidate: the step that tracks it raises, the
\* candidate is not logged and the loop does not go on.
C9_MissingMetricRaises ==
    [][(pc = "track" /\ save_best /\ Lacks(results)) =>
          (pc' = "run_failed" /\ error' = "KeyError" /\ i' = i
           /\ log_records' = log_records)]_vars

C9_Witness ==
    /\ pc = "run_failed" /\ error = "KeyError" /\ save_best
    /\ Lacks(results) /\ i = 1

\* C10: the target metric is resolved when the first candidate is taken
\* and only then: it becomes that candidate's first metric name if none was
\* configured and stays the configured name otherwise; no other step
\* changes it, and best tracking and the report call use it.
C10_TargetResolvedOnce ==
    [][/\ (pc = "next" /\ pc' = "exec" /\ i = 0) =>
             target_metric' = (IF target_metric = NoTarget
                               THEN pipe'.metrics ELSE target_metric)
       /\ ~(pc = "next" /\ pc' = "exec" /\ i = 0) =>
             target_metric' = target_metric
       /\ (report_calls' # report_calls) =>
             report_calls' = Append(report_calls, target_metric)
       /\ (observed' # observed) =>
             observed'[Len(observed')].metric = target_metric]_vars

C10_Witness ==
    /\ pc = "done" /\ gen_len = 2
    /\ report_calls = <<"accuracy">>
    /\ pipe.metrics = "f1"

\* C11: the validation pass runs once, in __init__: every call of the
\* executor or the scorer in the full run comes after the pass took all its
\* candidates, each once, with none rejected; when the pass fails the
\* construction fails and the full run never executes anything.
C11_ValidationBeforeRun ==
    /\ test_calls = SeqTo(Len(test_calls))
    /\ Len(test_readers) <= gen_len
    /\ (run_calls # <<>> \/ pc \notin {"test", "test_failed"}) =>
          /\ test_calls = SeqTo(gen_len)
          /\ Len(test_readers) = gen_len
          /\ ~HasBadReader
          /\ t_ind = gen_len
          /\ error \notin {"ConfigError"}
    /\ (pc = "test_failed" \/ error \in {"ConfigError"}) =>
          /\ pc = "test_failed"
          /\ run_calls = <<>> /\ log_records = <<>> /\ report_calls = <<>>
          /\ ~log_saved /\ src = [d \in Datasets |-> NoDir] /\ dst = InitialDst

C11_Witness ==
    /\ Len(run_calls) = 2 /\ gen_len = 2
    /\ test_calls = <<1, 2>>

\* C12: when the validation pass completes, the temporary area is gone and
\* stays gone; it is removed only by the step that ends the pass, after the
\* last candidate of the pass was executed.
C12_TmpRemovedAtEnd ==
    [][/\ (pc = "test" /\ pc' \notin {"test", "test_failed"}) =>
             (~tmp_exists' /\ t_ind = gen_len /\ test_calls = SeqTo(gen_len))
       /\ (tmp_exists /\ ~tmp_exists') =>
             (pc = "test" /\ t_ind = gen_len /\ test_calls = SeqTo(gen_len))
       /\ (pc \notin {"test", "test_failed"}) => ~tmp_exists']_vars

C12_Witness ==
    /\ pc = "ready" /\ ~tmp_exists /\ gen_len = 2 /\ test_calls = <<1, 2>>

\* the candidates of dataset d that reached the largest value seen for d
TopOf(d) ==
    {o \in ObservedOf(d) : o.score = MaxOf({x.score : x \in ObservedOf(d)})}
FirstInd(S) == CHOOSE k \in {o.ind : o \in S} : \A o \in S : k <= o.ind

\* C13: when two or more candidates of a dataset reach the same largest
\* target-metric value, best_ind of the dataset is the index of the first
\* of them, at every point of the run: a later candidate with an equal (or
\* lower) value never takes over.
C13_TiesKeepFirst ==
    \A d \in DOMAIN dataset_res :
        Cardinality(TopOf(d)) >= 2 =>
            dataset_res[d].best_ind = FirstInd(TopOf(d))

\* C14: during the full run the best_score of a dataset never decreases,
\* no entry of the tracker disappears, and a step changes or creates the
\* entry of no dataset but the one of the candidate being processed.
C14_BestNeverDecreases ==
    [][/\ \A d \in DOMAIN dataset_res :
             /\ d \in DOMAIN dataset_res'
             /\ dataset_res'[d].best_score >= dataset_res[d].best_score
             /\ (d # pipe.dataset) => dataset_res'[d] = dataset_res[d]
       /\ (DOMAIN dataset_res') \ (DOMAIN dataset_res) \subseteq {pipe.dataset}]_vars

C14_Witness ==
    \E d \in DOMAIN dataset_res :
        /\ dataset_res[d] = [best_score |-> 1, best_ind |-> 1]
        /\ \E o \in ObservedOf(d) : o.ind = 2 /\ o.score = 0

\* C15: in the retention of a dataset, an entry of its checkpoint directory
\* whose name does not start with 'pipe' is moved into <dataset>_best_pipe
\* exactly when nothing of that name, file or directory, is there already;
\* when something is, retention does not fail and leaves what was there
\* unchanged. After the step the entry is not under the dataset's
\* directory any more.
C15_SharedMovedOnce ==
    [][(pc = "retain" /\ ds_todo # <<>> /\ src[Head(ds_todo)].exists) =>
          LET name == Head(ds_todo) IN
          \A e \in src[name].entries :
              ~StartsWithPipe(e.name) =>
                  /\ pc' # "run_failed"
                  /\ IF Exists(dst[name], e.name)
                     THEN Named(dst'[name], e.name) = Named(dst[name], e.name)
                     ELSE e \in dst'[name].entries
                  /\ ~src'[name].exists]_vars

\* C16: the order of a successful run. The final log is saved only after
\* every candidate was executed and recorded; retention starts only after
\* the final log was saved (and only with save_best), so never while a
\* candidate is still unscored; the report is made once, with the resolved
\* target metric, and only after retention has finished for every dataset
\* with a recorded candidate.
C16_RunOrder ==
    /\ log_saved =>
          /\ Inds(run_calls) = SeqTo(gen_len)
          /\ Inds(log_records) = SeqTo(gen_len)
    /\ (pc = "retain" \/ ds_todo # <<>> \/ dst # InitialDst) =>
          /\ log_saved
          /\ save_best
    /\ pc \in {"report", "done"} =>
          /\ log_saved
          /\ ds_todo = <<>>
          /\ save_best =>
                \A k \in DOMAIN log_records :
                    /\ ~src[log_records[k].dataset].exists
                    /\ dst[log_records[k].dataset].exists
    /\ report_calls = IF pc = "done" THEN <<target_metric>> ELSE <<>>
    /\ pc = "done" => target_metric \in MetricNames
C16_Witness ==
    /\ pc = "done"
    /\ save_best
    /\ Len(ds_order) = 2
    /\ Len(report_calls) = 1
    /\ \E d \in Datasets : RunPipes(dst[d]) # {}

\* C17: in a run without cross validation, as long as the loop has not
\* ended (the next candidate about to be executed, being executed, or the
\* run aborted in it), the candidates recorded so far are exactly 1..i, in
\* order, the config of each of them is in pipe_<k> under the directory of
\* its own dataset, and no other config of this run is anywhere under the
\* checkpoint directories: an abort in candidate i+1 leaves the records
\* and the configs of 1..i, and nothing of candidate i+1 but what the
\* executor itself wrote.
C17_PersistedBeforeNext ==
    (~cross_validation /\ ~log_saved) =>
        /\ Inds(log_records) = SeqTo(i)
        /\ \A k \in 1..i :
              Entry(PipeName(k), "dir", "run", TRUE)
                 \in src[log_records[k].dataset].entries
        /\ \A d \in Datasets : \A e \in src[d].entries :
              (e.origin = "run" /\ e.config) =>
                  \E k \in 1..i : /\ e.name = PipeName(k)
                                  /\ log_records[k].dataset = d
C17_Witness ==
    /\ ~cross_validation
    /\ pc = "run_failed"
    /\ error = "ExecutorError"
    /\ i = 1
    /\ Inds(run_calls) = <<1, 2>>
    /\ Inds(log_records) = <<1>>
    /\ Entry(PipeName(1), "dir", "run", TRUE) \in src[log_records[1].dataset].entries
    /\ Entry(PipeName(2), "dir", "run", FALSE) \in src[pipe.dataset].entries

\* C18: with save_best disabled a run tracks no best candidate and retains
\* nothing: dataset_res stays empty, the retention block is never entered,
\* the <dataset>_best_pipe directories stay as they were before the run
\* (none is created), nothing leaves the dataset directories, so that what
\* the executor wrote for a recorded candidate, and without cross
\* validation its config, is still in pipe_<k> under its dataset; the
\* report is made once when the run is done.
C18_NoRetentionWhenDisabled ==
    ~save_best =>
        /\ DOMAIN dataset_res = {}
        /\ observed = <<>>
        /\ ds_order = <<>>
        /\ ds_todo = <<>>
        /\ pc # "retain"
        /\ dst = InitialDst
        /\ \A d \in Datasets : ~dst[d].exists
        /\ \A k \in DOMAIN log_records :
              /\ ~cross_validation =>
                    Entry(PipeName(k), "dir", "run", TRUE)
                       \in src[log_records[k].dataset].entries
              /\ \A d \in Datasets :
                    Exists(src[d], PipeName(k)) => d = log_records[k].dataset
        /\ report_calls = IF pc = "done" THEN <<target_metric>> ELSE <<>>
        /\ pc = "done" => log_saved /\ Inds(log_records) = SeqTo(gen_len)
C18_Witness ==
    /\ ~save_best
    /\ ~cross_validation
    /\ pc = "done"
    /\ gen_len = 2
    /\ Len(report_calls) = 1
    /\ log_records[1].dataset = log_records[2].dataset
    /\ Cardinality(RunPipes(src[log_records[1].dataset])) = 2

\* C19: a failure of the retention block (os.listdir of a missing dataset
\* directory, or a shutil.move onto an existing name) leaves run(): the
\* step ends the run as failed with that exception and no report made, the
\* dataset it failed in stays the next one to retain, and the directories
\* of every other dataset, promoted before or not processed yet, are what
\* they were before the step. Nothing happens after a failure: there is no
\* report and no return from run().
C19_RetentionFailurePropagates ==
    [][/\ error = "none"
       /\ (pc = "retain" /\ error' # "none") =>
             /\ pc' = "run_failed"
             /\ error' \in {"FileNotFoundError", "shutil.Error"}
             /\ report_calls' = <<>>
             /\ ds_todo' = ds_todo
             /\ \A d \in Datasets \ {Head(ds_todo)} :
                   src'[d] = src[d] /\ dst'[d] = dst[d]
       /\ pc' \in {"report", "done"} => error' = "none"]_vars
C19_Witness ==
    /\ log_saved
    /\ pc = "run_failed"
    /\ error = "shutil.Error"
    /\ report_calls = <<>>
    /\ Len(ds_order) = 2
    /\ ds_todo = <<ds_order[2]>>
    /\ ~src[ds_order[1]].exists
    /\ RunPipes(dst[ds_order[1]]) # {}
    /\ src[ds_order[2]].exists
    /\ RunPipes(dst[ds_order[2]]) # {}

\* C20: at every point of a run with save_best, the entry of every dataset
\* in dataset_res is consistent: best_ind is None exactly when best_score
\* is still the initial value, and otherwise best_ind is the index of a
\* candidate of that dataset that was already executed and whose
\* target-metric value is best_score.
C20_TrackerConsistent ==
    save_best =>
        \A d \in DOMAIN dataset_res :
            LET best == dataset_res[d] IN
            /\ (best.best_ind = NoInd) <=> (best.best_score = InitialBestScore)
            /\ best.best_ind # NoInd =>
                  /\ best.best_ind \in 1..Len(run_calls)
                  /\ run_calls[best.best_ind].ind = best.best_ind
                  /\ \E o \in ObservedOf(d) : /\ o.ind = best.best_ind
                                              /\ o.score = best.best_score
C20_Witness ==
    /\ save_best
    /\ Len(ds_order) = 2
    /\ dataset_res[ds_order[1]] = InitialBest
    /\ ObservedOf(ds_order[1]) # {}
    /\ dataset_res[ds_order[2]].best_ind = 2
    /\ dataset_res[ds_order[2]].best_score = TopScore

=============================================================================
